---- MODULE Spec2Model ----
(***************************************************************************)
(* Model of rbx_xml's serializer core (src/rbx_xml/src/serializer_core.rs) *)
(* and of its type dispatch (src/rbx_xml/src/types/mod.rs).                *)
(*                                                                         *)
(* A string is a sequence of characters; a character is a one-character    *)
(* TLA+ string.  An XML event is a record [kind, name, text].  Every       *)
(* method of XmlEventWriter is one action; the stream failure it may meet  *)
(* is an input of the action (failAt: the number of the inner write that   *)
(* fails, 0 for none).                                                     *)
(***************************************************************************)
EXTENDS Integers, Sequences, FiniteSets, TLC

\* ------------------------------------------------------------------ bounds

\* Longest string handed to write_string.
MaxStrLen == 3
\* Longest values / tags slice handed to write_tag_array.
MaxArrayLen == 2
\* The stream fails at most this many times on one writer.
MaxFaults == 1
\* The reader is at most this many events into its document.
MaxPosition == 2

\* ------------------------------------------------------------ input domains

Chars == {"a", " ", "\n"}

StringsOfLen(n) == [1..n -> Chars]

Strings == UNION {StringsOfLen(n) : n \in 0..MaxStrLen}

IntVal(i) == [t |-> "int", i |-> i, s |-> <<>>]

StrVal(s) == [t |-> "str", i |-> 0, s |-> s]

\* The Display values handed to write_characters and its wrappers.
DisplayValues == {IntVal(-12), StrVal(<<" ", "a">>)}

Tags == {"X", "Y"}

\* The tag slices handed to write_tag_array: the leading field names of a
\* composite type.
FieldNames == <<"X", "Y", "Z", "R00">>

TagSlices == {SubSeq(FieldNames, 1, n) : n \in 0..MaxArrayLen}

SeqsUpTo(S, n) == UNION {[1..k -> S] : k \in 0..n}

\* ------------------------------------------------------------------ events

StartElement(name) == [kind |-> "StartElement", name |-> name, text |-> <<>>]

EndElement == [kind |-> "EndElement", name |-> "", text |-> <<>>]

Characters(value) == [kind |-> "Characters", name |-> "", text |-> value]

CData(value) == [kind |-> "CData", name |-> "", text |-> value]

\* ----------------------------------------------------------------- results

NoError == [kind |-> "None"]

Ok == [status |-> "Ok", error |-> NoError]

Err(e) == [status |-> "Err", error |-> e]

Panic(msg) == [status |-> "Panic", error |-> [kind |-> msg]]

\* The error the stream returns when it refuses an event.
IoError(event) == [kind |-> "Io", event |-> event]

\* ------------------------------------------------------------------- state

VARIABLES
    character_buffer,   \* XmlEventWriter.character_buffer
    output,             \* events the inner EventWriter accepted in the last call
    attempts,           \* events handed to the inner EventWriter in the last call
    faults,             \* how often the stream has failed on this writer
    call,               \* the last call: its name and its arguments
    result,             \* what the last call returned
    buffer_before,      \* character_buffer when the last call began
    reader_position,    \* XmlEventReader: events of the document consumed so far
    parse_state,        \* ParseState, the deserializer's context
    emit_state,         \* EmitState, the serializer's context
    invoked             \* the type handler the last call dispatched to

vars == <<character_buffer, output, attempts, faults, call, result, buffer_before,
          reader_position, parse_state, emit_state, invoked>>


\* ------------------------------------------------------- the inner writer

\* The writer while a call runs: the buffer, the events accepted and handed
\* over so far in this call, and the inner write that is going to fail.
Running(buffer, failAt) ==
    [character_buffer |-> buffer, output |-> <<>>, attempts |-> <<>>, failAt |-> failAt]

Return(w, r) == [w |-> w, r |-> r]

\* XmlEventWriter::write / EventWriter::write: one event to the stream.
Write(w, event) ==
    LET handed == Append(w.attempts, event) IN
    IF Len(handed) = w.failAt
    THEN Return([w EXCEPT !.attempts = handed], Err(IoError(event)))
    ELSE Return([w EXCEPT !.attempts = handed, !.output = Append(w.output, event)], Ok)

\* ------------------------------------------------ write_characters_or_cdata

None == "None"

\* value.chars().next()
first_char(value) == IF Len(value) = 0 THEN None ELSE value[1]

\* value.chars().next_back()
last_char(value) == IF Len(value) = 0 THEN None ELSE value[Len(value)]

\* char::is_whitespace on the characters of the model
is_whitespace(c) == c \in {" ", "\n", "\t", "\r"}

\* A variant that looks at the first character alone.
has_outer_whitespace_first_only(value) ==
    IF first_char(value) # None THEN is_whitespace(first_char(value)) ELSE FALSE

has_outer_whitespace(value) ==
    LET first == first_char(value)
        last == last_char(value)
    IN  IF first # None /\ last # None
        THEN is_whitespace(first) \/ is_whitespace(last)
        ELSE IF first # None THEN is_whitespace(first)
        ELSE IF last # None THEN is_whitespace(last)
        ELSE FALSE

\* A variant that always writes a regular characters block.
write_characters_or_cdata_plain(w, value) == Write(w, Characters(value))

write_characters_or_cdata(w, value) ==
    IF has_outer_whitespace(value)
    THEN Write(w, CData(value))
    ELSE Write(w, Characters(value))

\* XmlEventWriter::write_string
write_string(w, value) == write_characters_or_cdata(w, value)

\* ------------------------------------------------------------------ Display

Digit(d) == CASE d = 0 -> "0" [] d = 1 -> "1" [] d = 2 -> "2" [] d = 3 -> "3"
              [] d = 4 -> "4" [] d = 5 -> "5" [] d = 6 -> "6" [] d = 7 -> "7"
              [] d = 8 -> "8" [] d = 9 -> "9"

RECURSIVE Digits(_)
Digits(n) == IF n < 10 THEN <<Digit(n)>> ELSE Append(Digits(n \div 10), Digit(n % 10))

\* format!("{}", value): an integer in decimal, a string as it is.
Display(value) ==
    IF value.t = "int"
    THEN IF value.i < 0 THEN <<"-">> \o Digits(-value.i) ELSE Digits(value.i)
    ELSE value.s

\* ---------------------------------------------------- XmlEventWriter methods

write_characters(w, value) ==
    LET w1 == [w EXCEPT !.character_buffer = @ \o Display(value)]
        r == write_characters_or_cdata(w1, w1.character_buffer)
    IN  IF r.r.status # "Ok"
        THEN r
        ELSE Return([r.w EXCEPT !.character_buffer = <<>>], Ok)

\* A variant that closes the element whatever the content's write returned.
write_tag_characters_closing(w, tag, value) ==
    LET r1 == Write(w, StartElement(tag)) IN
    IF r1.r.status # "Ok" THEN r1
    ELSE LET r2 == write_characters(r1.w, value)
             r3 == Write(r2.w, EndElement)
         IN  IF r2.r.status # "Ok" THEN Return(r3.w, r2.r) ELSE r3

write_tag_characters(w, tag, value) ==
    LET r1 == Write(w, StartElement(tag)) IN
    IF r1.r.status # "Ok" THEN r1
    ELSE LET r2 == write_characters(r1.w, value) IN
         IF r2.r.status # "Ok" THEN r2
         ELSE Write(r2.w, EndElement)

\* A variant without the assertion.
lengths_unchecked(values, tags) == TRUE

\* assert_eq!(values.len(), tags.len())
lengths_agree(values, tags) == Len(values) = Len(tags)

RECURSIVE write_tag_array_from(_, _, _, _)
write_tag_array_from(w, values, tags, index) ==
    IF index > Len(values) THEN Return(w, Ok)
    ELSE IF index > Len(tags) THEN Return(w, Panic("index out of bounds"))
    ELSE LET r == write_tag_characters(w, tags[index], values[index]) IN
         IF r.r.status # "Ok" THEN r
         ELSE write_tag_array_from(r.w, values, tags, index + 1)

write_tag_array(w, values, tags) ==
    IF ~lengths_agree(values, tags)
    THEN Return(w, Panic("assertion failed"))
    ELSE write_tag_array_from(w, values, tags, 1)

\* ------------------------------------------------------------ type dispatch

\* The kinds of rbx_dom_weak's Variant the model tells apart.
VariantKinds ==
    {"BinaryString", "Bool", "BrickColor", "CFrame", "Int32", "Ref", "SharedString", "String"}

Variant(kind, payload) == [variant |-> kind, payload |-> payload]

Payloads == {0, 1}

Variants == {Variant(kind, payload) : kind \in VariantKinds, payload \in Payloads}

\* Variant::ty
ty(value) == value.variant

\* A variant of the invocation that pairs Bool and String with each other's type.
RbxTypes_mispaired ==
    << [variant_name |-> "BinaryString", inner_type |-> "BinaryString"],
       [variant_name |-> "Bool", inner_type |-> "String"],
       [variant_name |-> "CFrame", inner_type |-> "CFrame"],
       [variant_name |-> "String", inner_type |-> "bool"] >>

\* The invocation of declare_rbx_types!: variant name and inner type of each arm.
RbxTypes ==
    << [variant_name |-> "BinaryString", inner_type |-> "BinaryString"],
       [variant_name |-> "Bool", inner_type |-> "bool"],
       [variant_name |-> "CFrame", inner_type |-> "CFrame"],
       [variant_name |-> "String", inner_type |-> "String"] >>

\* XmlType::XML_TAG_NAME of each inner type.
XML_TAG_NAME(inner_type) ==
    CASE inner_type = "BinaryString" -> "BinaryString"
      [] inner_type = "bool" -> "bool"
      [] inner_type = "CFrame" -> "CoordinateFrame"
      [] inner_type = "String" -> "string"

\* The tag names a document may hold at a value.
TagNames ==
    {"BinaryString", "bool", "CoordinateFrame", "string",
     "Bool", "String", "ProtectedString", "Ref", "SharedString", "int", "NotARealType"}

PropertyNames == {"Name", "Visible"}

NoHandler == [inner_type |-> "none", direction |-> "none", property_name |-> ""]

Handler(inner_type, direction, property_name) ==
    [inner_type |-> inner_type, direction |-> direction, property_name |-> property_name]

OkValue(value) == [status |-> "Ok", error |-> NoError, value |-> value]

\* DecodeErrorKind::UnknownPropertyType / EncodeErrorKind::UnsupportedPropertyType
UnknownPropertyType(name) == [kind |-> "UnknownPropertyType", name |-> name]

UnsupportedPropertyType(type) == [kind |-> "UnsupportedPropertyType", name |-> type]

\* XmlEventReader::error: the kind together with the reader's position.
reader_error(reader, kind) ==
    [kind |-> kind.kind, name |-> kind.name, position |-> reader.position]

\* XmlEventWriter::error
writer_error(w, kind) == [kind |-> kind.kind, name |-> kind.name]

\* XmlType::read_xml of a registered type: it consumes the events of the value
\* and returns the value the document holds, or fails on a malformed one.
read_xml(inner_type, reader, document) ==
    LET after == [reader EXCEPT !.position = @ + document.events] IN
    IF document.malformed
    THEN [reader |-> after, r |-> Err(reader_error(after, [kind |-> "Malformed", name |-> inner_type]))]
    ELSE [reader |-> after, r |-> OkValue(document.payload)]

\* The start of a property's element: the type's tag with the name attribute.
StartProperty(tag, property_name) ==
    [kind |-> "StartElement", name |-> tag, text |-> <<property_name>>]

\* XmlType::write_xml of a registered type: the element of the value.
write_xml(inner_type, w, property_name, payload) ==
    LET r1 == Write(w, StartProperty(XML_TAG_NAME(inner_type), property_name)) IN
    IF r1.r.status # "Ok" THEN r1
    ELSE LET r2 == write_string(r1.w, Display(IntVal(payload))) IN
         IF r2.r.status # "Ok" THEN r2
         ELSE Write(r2.w, EndElement)

\* The first arm at or after index whose tag name is xml_type_name, 0 for `_`.
RECURSIVE read_arm_from(_, _)
read_arm_from(xml_type_name, index) ==
    IF index > Len(RbxTypes) THEN 0
    ELSE IF XML_TAG_NAME(RbxTypes[index].inner_type) = xml_type_name THEN index
    ELSE read_arm_from(xml_type_name, index + 1)

\* A variant whose `_` arm reads the value as the last registered type.
read_arm_lenient(xml_type_name) ==
    IF read_arm_from(xml_type_name, 1) = 0
    THEN Len(RbxTypes)
    ELSE read_arm_from(xml_type_name, 1)

\* match xml_type_name { <$inner_type>::XML_TAG_NAME => ..., _ => ... }
read_arm(xml_type_name) == read_arm_from(xml_type_name, 1)

\* The first arm at or after index whose variant is the value's, 0 for `unknown`.
RECURSIVE write_arm_from(_, _)
write_arm_from(value, index) ==
    IF index > Len(RbxTypes) THEN 0
    ELSE IF RbxTypes[index].variant_name = value.variant THEN index
    ELSE write_arm_from(value, index + 1)

\* A variant with a BrickColor arm: the value is written by a registered type.
write_arm_brick_color(value) ==
    IF value.variant = "BrickColor" THEN 1 ELSE write_arm_from(value, 1)

\* match value { Variant::$variant_name(value) => ..., unknown => ... }
write_arm(value) == write_arm_from(value, 1)

read_value_xml(reader, state, xml_type_name, instance_id, property_name, document) ==
    LET arm == read_arm(xml_type_name) IN
    IF arm # 0
    THEN LET inner_type == RbxTypes[arm].inner_type
             h == read_xml(inner_type, reader, document)
         IN  [reader |-> h.reader, state |-> state,
              invoked |-> Handler(inner_type, "read_xml", ""),
              r |-> IF h.r.status # "Ok" THEN h.r
                    ELSE OkValue(Variant(RbxTypes[arm].variant_name, h.r.value))]
    ELSE [reader |-> reader, state |-> state, invoked |-> NoHandler,
          r |-> Err(reader_error(reader, UnknownPropertyType(xml_type_name)))]

write_value_xml(w, state, xml_property_name, value) ==
    LET arm == write_arm(value) IN
    IF arm # 0
    THEN LET inner_type == RbxTypes[arm].inner_type
             h == write_xml(inner_type, w, xml_property_name, value.payload)
         IN  [w |-> h.w, state |-> state, r |-> h.r,
              invoked |-> Handler(inner_type, "write_xml", xml_property_name)]
    ELSE [w |-> w, state |-> state, invoked |-> NoHandler,
          r |-> Err(writer_error(w, UnsupportedPropertyType(ty(value))))]

\* ----------------------------------------------------------------- actions

Init ==
    /\ character_buffer = <<>>
    /\ output = <<>>
    /\ attempts = <<>>
    /\ faults = 0
    /\ call = [op |-> "from_output"]
    /\ result = Ok
    /\ buffer_before = <<>>
    /\ reader_position = 0
    /\ parse_state = {}
    /\ emit_state = {}
    /\ invoked = NoHandler

\* The inner writes a call may fail at: none once the stream has used up
\* its failures.
FailPoints(n) == IF faults < MaxFaults THEN 0..n ELSE {0}

\* A call on the writer has returned ret: the writer and the record of the call.
Finish(c, ret) ==
    /\ character_buffer' = ret.w.character_buffer
    /\ output' = ret.w.output
    /\ attempts' = ret.w.attempts
    /\ faults' = IF ret.r.status = "Err" /\ ret.r.error.kind = "Io" THEN faults + 1 ELSE faults
    /\ call' = c
    /\ result' = ret.r
    /\ buffer_before' = character_buffer

\* XmlEventWriter::from_output: a new writer on a new stream.
FromOutput ==
    /\ call.op # "from_output"
    /\ character_buffer' = <<>>
    /\ output' = <<>>
    /\ attempts' = <<>>
    /\ faults' = 0
    /\ call' = [op |-> "from_output"]
    /\ result' = Ok
    /\ buffer_before' = <<>>
    /\ invoked' = NoHandler
    /\ UNCHANGED <<reader_position, parse_state, emit_state>>

WriteString ==
    \E value \in Strings, failAt \in FailPoints(1) :
        /\ Finish([op |-> "write_string", value |-> value, failAt |-> failAt],
                  write_string(Running(character_buffer, failAt), value))
        /\ invoked' = NoHandler
        /\ UNCHANGED <<reader_position, parse_state, emit_state>>

WriteCharacters ==
    \E value \in DisplayValues, failAt \in FailPoints(1) :
        /\ Finish([op |-> "write_characters", value |-> value, failAt |-> failAt],
                  write_characters(Running(character_buffer, failAt), value))
        /\ invoked' = NoHandler
        /\ UNCHANGED <<reader_position, parse_state, emit_state>>

WriteTagCharacters ==
    \E tag \in Tags, value \in DisplayValues, failAt \in FailPoints(3) :
        /\ Finish([op |-> "write_tag_characters", tag |-> tag, value |-> value,
                   failAt |-> failAt],
                  write_tag_characters(Running(character_buffer, failAt), tag, value))
        /\ invoked' = NoHandler
        /\ UNCHANGED <<reader_position, parse_state, emit_state>>

\* The inner writes write_tag_array makes when nothing fails.
ArrayWrites(values, tags) == IF Len(values) = Len(tags) THEN 3 * Len(values) ELSE 0

WriteTagArray ==
    \E values \in SeqsUpTo(DisplayValues, MaxArrayLen), tags \in TagSlices :
        \E failAt \in FailPoints(ArrayWrites(values, tags)) :
            /\ Finish([op |-> "write_tag_array", values |-> values, tags |-> tags,
                       failAt |-> failAt],
                      write_tag_array(Running(character_buffer, failAt), values, tags))
            /\ invoked' = NoHandler
            /\ UNCHANGED <<reader_position, parse_state, emit_state>>

\* What the document holds at the reader's position: the events of the value,
\* the value they spell, and whether a handler can parse them.
Documents ==
    {d \in [events : 1..MaxPosition, payload : Payloads, malformed : BOOLEAN] :
        d.malformed => d.payload = 0}

ReadValueXml ==
    \E xml_type_name \in TagNames, property_name \in PropertyNames, document \in Documents :
        LET reader == [position |-> reader_position]
            ret == read_value_xml(reader, parse_state, xml_type_name, 0, property_name, document)
        IN  /\ ret.reader.position <= MaxPosition
            /\ call' = [op |-> "read_value_xml", xml_type_name |-> xml_type_name,
                        property_name |-> property_name, document |-> document,
                        position |-> reader_position, state |-> parse_state]
            /\ result' = ret.r
            /\ reader_position' = ret.reader.position
            /\ parse_state' = ret.state
            /\ invoked' = ret.invoked
            /\ output' = <<>>
            /\ attempts' = <<>>
            /\ buffer_before' = character_buffer
            /\ UNCHANGED <<character_buffer, faults, emit_state>>

WriteValueXml ==
    \E xml_property_name \in PropertyNames, value \in Variants :
        \E failAt \in FailPoints(IF write_arm(value) # 0 THEN 3 ELSE 0) :
            LET ret == write_value_xml(Running(character_buffer, failAt), emit_state,
                                       xml_property_name, value)
            IN  /\ Finish([op |-> "write_value_xml", xml_property_name |-> xml_property_name,
                           value |-> value, failAt |-> failAt, state |-> emit_state],
                          ret)
                /\ emit_state' = ret.state
                /\ invoked' = ret.invoked
                /\ UNCHANGED <<reader_position, parse_state>>

\* The serializer core: one XmlEventWriter and the calls made on it.
Next ==
    \/ FromOutput
    \/ WriteString
    \/ WriteCharacters
    \/ WriteTagCharacters
    \/ WriteTagArray

Spec == Init /\ [][Next]_vars

\* The type dispatch: values read from one document and written to one stream.
NextTypes ==
    \/ FromOutput
    \/ ReadValueXml
    \/ WriteValueXml

SpecTypes == Init /\ [][NextTypes]_vars

\* ------------------------------------------------------------------ reader

\* The whitespace a reader trims from character data.
IsXmlWhitespace(c) == c \in {" ", "\t", "\n", "\r"}

RECURSIVE TrimStart(_)
TrimStart(s) ==
    IF Len(s) > 0 /\ IsXmlWhitespace(s[1]) THEN TrimStart(Tail(s)) ELSE s

RECURSIVE TrimEnd(_)
TrimEnd(s) ==
    IF Len(s) > 0 /\ IsXmlWhitespace(s[Len(s)]) THEN TrimEnd(SubSeq(s, 1, Len(s) - 1)) ELSE s

Trim(s) == TrimEnd(TrimStart(s))

\* The text a reader returns for one text event: character data trimmed, a
\* CDATA block as it is.
ReadText(event) == IF event.kind = "CData" THEN event.text ELSE Trim(event.text)

\* ------------------------------------------------------------------ claims

\* What the specification calls whitespace, and a string with outer whitespace.
SpecWhitespace == {" ", "\t", "\n", "\r"}

OuterWhitespace(s) ==
    /\ Len(s) > 0
    /\ (s[1] \in SpecWhitespace \/ s[Len(s)] \in SpecWhitespace)

TextKinds == {"Characters", "CData"}

\* The event the specification asks for a text.
TextEvent(s) == IF OuterWhitespace(s) THEN CData(s) ELSE Characters(s)

SameEnds(s, u) == Len(s) > 0 /\ Len(u) > 0 /\ s[1] = u[1] /\ s[Len(s)] = u[Len(u)]

\* C1: write_string hands the stream exactly one event, holding the value: a
\* CDATA event iff the value is non-empty and its first or last character is
\* whitespace, a characters event otherwise; every string with the same first
\* and last character gets the same kind of event; and every text event of any
\* call is chosen by the same rule.
C1_TextEventChoice ==
    /\ call.op = "write_string" =>
        /\ attempts = <<TextEvent(call.value)>>
        /\ result.status = "Ok" => output = attempts
        /\ \A u \in Strings :
            SameEnds(u, call.value) =>
                write_string(Running(<<>>, 0), u).w.output[1].kind = attempts[1].kind
    /\ \A i \in 1..Len(attempts) :
        attempts[i].kind \in TextKinds => attempts[i] = TextEvent(attempts[i].text)

\* A string whose only outer whitespace is its last character went out as CDATA.
C1_Witness ==
    /\ call.op = "write_string"
    /\ call.value = <<"a", "\n">>
    /\ result.status = "Ok"
    /\ output = <<CData(<<"a", "\n">>)>>

\* C2: a string written by write_string and read back by a reader that trims
\* character data and returns CDATA verbatim is the string that was written,
\* with or without whitespace at its ends.
C2_WhitespaceRoundTrip ==
    (call.op = "write_string" /\ result.status = "Ok") =>
        /\ Len(output) = 1
        /\ ReadText(output[1]) = call.value

\* A string of whitespace with whitespace inside has made the round trip.
C2_Witness ==
    /\ call.op = "write_string"
    /\ call.value = <<" ", "a", "\n">>
    /\ result.status = "Ok"
    /\ ReadText(output[1]) = <<" ", "a", "\n">>
    /\ Trim(call.value) # call.value

\* C3: whenever write_characters has returned, with Ok or with the stream's
\* error, the character buffer is empty.
C3_BufferEmptyOnReturn ==
    call.op = "write_characters" => character_buffer = <<>>

\* C4: the text every write_characters call hands the stream is the formatted
\* text of its own value, whatever the calls before it returned.
C4_OwnTextOnly ==
    call.op = "write_characters" =>
        /\ Len(attempts) = 1
        /\ attempts[1].text = Display(call.value)

\* C5: write_tag_array on slices of different lengths panics on its assertion
\* before it hands the stream anything: no pair is written, no index is taken
\* past the end of the shorter slice, and the writer is as it was.
C5_MismatchPanicsFirst ==
    (call.op = "write_tag_array" /\ Len(call.values) # Len(call.tags)) =>
        /\ result = Panic("assertion failed")
        /\ attempts = <<>>
        /\ output = <<>>
        /\ character_buffer = buffer_before

\* Two values and one tag have panicked on the assertion.
C5_Witness ==
    /\ call.op = "write_tag_array"
    /\ Len(call.values) = 2
    /\ Len(call.tags) = 1
    /\ result = Panic("assertion failed")
    /\ attempts = <<>>

\* The tag names and the kinds the specification has registered.
SpecRegistry ==
    {<<"BinaryString", "BinaryString">>, <<"Bool", "bool">>,
     <<"CFrame", "CoordinateFrame">>, <<"String", "string">>}

SpecKinds == {e[1] : e \in SpecRegistry}

SpecTags == {e[2] : e \in SpecRegistry}

SpecKindOfTag(tag) == CHOOSE kind \in SpecKinds : <<kind, tag>> \in SpecRegistry

\* The inner type a kind's handler is implemented on.
SpecInnerType(kind) == IF kind = "Bool" THEN "bool" ELSE kind

\* C6: read_value_xml on a tag name that is no registered tag name returns the
\* unknown-type error with that name and the reader's position, calls no
\* handler, reads nothing and leaves the parse state alone.
C6_UnknownTagFails ==
    (call.op = "read_value_xml" /\ call.xml_type_name \notin SpecTags) =>
        /\ result = Err([kind |-> "UnknownPropertyType", name |-> call.xml_type_name,
                         position |-> call.position])
        /\ invoked = NoHandler
        /\ reader_position = call.position
        /\ parse_state = call.state

\* A tag name that differs from a registered one by case alone was refused,
\* with the reader inside its document.
C6_Witness ==
    /\ call.op = "read_value_xml"
    /\ call.xml_type_name = "Bool"
    /\ call.position = 1
    /\ result.status = "Err"
    /\ result.error.name = "Bool"
    /\ result.error.position = 1

\* C7: write_value_xml on a value of a kind without a handler returns the
\* unsupported-type error with the kind's name, calls no handler, hands the
\* stream nothing and leaves the emit state and the writer alone.
C7_UnsupportedKindFails ==
    (call.op = "write_value_xml" /\ call.value.variant \notin SpecKinds) =>
        /\ result = Err([kind |-> "UnsupportedPropertyType", name |-> call.value.variant])
        /\ invoked = NoHandler
        /\ attempts = <<>>
        /\ output = <<>>
        /\ emit_state = call.state
        /\ character_buffer = buffer_before

\* A BrickColor value was refused.
C7_Witness ==
    /\ call.op = "write_value_xml"
    /\ call.value.variant = "BrickColor"
    /\ result.status = "Err"
    /\ result.error.name = "BrickColor"
    /\ attempts = <<>>

\* The kinds read_value_xml returns for some tag name, and those write_value_xml
\* has an arm for.
DecodableKinds ==
    {RbxTypes[read_arm(tag)].variant_name : tag \in {n \in TagNames : read_arm(n) # 0}}

EncodableKinds == {kind \in VariantKinds : write_arm(Variant(kind, 0)) # 0}

\* C8: the kinds that can be read are the kinds that can be written; reading
\* with a registered kind's tag name calls that kind's handler and, when the
\* handler succeeds, returns its value as that kind's variant (its error
\* otherwise); writing a value of a registered kind calls that kind's handler
\* with the property name.
C8_RegistrySymmetric ==
    /\ DecodableKinds = EncodableKinds
    /\ (call.op = "read_value_xml" /\ call.xml_type_name \in SpecTags) =>
        LET kind == SpecKindOfTag(call.xml_type_name) IN
        /\ invoked = Handler(SpecInnerType(kind), "read_xml", "")
        /\ ~call.document.malformed =>
             result = OkValue(Variant(kind, call.document.payload))
        /\ call.document.malformed => result.status = "Err"
    /\ (call.op = "write_value_xml" /\ call.value.variant \in SpecKinds) =>
        /\ invoked = Handler(SpecInnerType(call.value.variant), "write_xml",
                             call.xml_property_name)
        /\ Len(attempts) >= 1
        /\ attempts[1].name = CHOOSE tag \in SpecTags :
                                  <<call.value.variant, tag>> \in SpecRegistry

\* A value was read with bool's tag name and came back as the Bool variant.
C8_Witness ==
    /\ call.op = "read_value_xml"
    /\ call.xml_type_name = "bool"
    /\ invoked.inner_type = "bool"
    /\ result.status = "Ok"
    /\ result.value = Variant("Bool", 1)

\* The events the specification asks of write_tag_array for elements from..n.
RECURSIVE TaggedEvents(_, _, _)
TaggedEvents(values, tags, from) ==
    IF from > Len(values) THEN <<>>
    ELSE <<StartElement(tags[from]), TextEvent(Display(values[from])), EndElement>>
         \o TaggedEvents(values, tags, from + 1)

\* C9: a write_tag_array (or write_tag_characters) call whose stream writes all
\* succeed writes, for each value in order, a start element named by its tag,
\* one text event holding the formatted value, and an end element: 3n events.
C9_TaggedArrayEvents ==
    /\ (call.op = "write_tag_array" /\ Len(call.values) = Len(call.tags)
            /\ result.status = "Ok") =>
        /\ Len(output) = 3 * Len(call.values)
        /\ output = TaggedEvents(call.values, call.tags, 1)
    /\ (call.op = "write_tag_characters" /\ result.status = "Ok") =>
        output = TaggedEvents(<<call.value>>, <<call.tag>>, 1)

TagCalls == {"write_tag_characters", "write_tag_array"}

\* C10: a write_tag_characters or write_tag_array call that meets a stream
\* failure returns the error of the failed write and hands the stream nothing
\* after it; the events before the failed one are written, the failed one and
\* its end element are not.
C10_FailureStopsWriting ==
    (call.op \in TagCalls /\ result.status # "Panic") =>
        /\ (call.failAt \in 1..Len(attempts)) <=> result.status = "Err"
        /\ result.status = "Err" =>
            /\ Len(attempts) = call.failAt
            /\ result.error = IoError(attempts[call.failAt])
            /\ output = SubSeq(attempts, 1, call.failAt - 1)
        /\ result.status = "Ok" => output = attempts

\* The content of the second element of an array failed: its start element and
\* the whole first element are written, nothing else.
C10_Witness ==
    /\ call.op = "write_tag_array"
    /\ Len(call.values) = 2
    /\ call.failAt = 5
    /\ result.status = "Err"
    /\ Len(output) = 4
    /\ output[4] = StartElement("Y")
    /\ Len(attempts) = 5

====
